---- MODULE Spec2Model ----
(***************************************************************************)
(* Model of homework.py: the fitness-tracker module that reads sensor      *)
(* packages, computes distance, mean speed and spent calories for three    *)
(* kinds of training, and prints one line per package.                     *)
(*                                                                         *)
(* Numbers.  Python evaluates the formulas in binary floating point; the   *)
(* model evaluates them in exact rational arithmetic (a rational is a      *)
(* pair <<n, d>> in lowest terms with d > 0), with the float literals of   *)
(* the source read as the decimals they are written as.  Exceptions are    *)
(* modelled as outcomes: every function that can raise returns a record    *)
(* [exc, value] whose exc is "None" when it returns normally.              *)
(***************************************************************************)
EXTENDS Integers, Sequences, FiniteSets, TLC

VARIABLES packages, idx, pc, training, exc, stdout

vars == <<packages, idx, pc, training, exc, stdout>>

(***************************************************************************)
(* Bounds of the model.                                                    *)
(***************************************************************************)
\* longest batch of packages the driver is run on
MaxPackages == 5
\* longest batch of packages on which the termination of the driver is checked
MaxFairPackages == 4
\* longest data sequence handed to read_package
MaxLen == 5

(***************************************************************************)
(* Exact rational arithmetic standing for Python's float arithmetic.       *)
(***************************************************************************)
\* The operations are functions, not operators, so that an argument is
\* evaluated once, before the operation is applied to it.
Q == Int \X Int

Abs[n \in Int] == IF n < 0 THEN 0 - n ELSE n

GCD[a \in Nat, b \in Nat] == IF b = 0 THEN a ELSE GCD[b, a % b]

\* the rational n/d (d # 0) in lowest terms with a positive denominator
Rat[n \in Int, d \in Int] ==
    LET s == IF d < 0 THEN 0 - 1 ELSE 1
        g == GCD[Abs[n], Abs[d]]
    IN  <<(s * n) \div g, Abs[d] \div g>>

FromInt[n \in Int] == <<n, 1>>

\* x + y and x - y over the least common denominator, and x * y with the
\* common factors cancelled first, so that the intermediate integers stay small
RAdd[x \in Q, y \in Q] ==
    LET g == GCD[x[2], y[2]]
    IN  Rat[x[1] * (y[2] \div g) + y[1] * (x[2] \div g), (x[2] \div g) * y[2]]
RSub[x \in Q, y \in Q] == RAdd[x, <<0 - y[1], y[2]>>]
RMul[x \in Q, y \in Q] ==
    LET g == GCD[Abs[x[1]], y[2]]
        h == GCD[Abs[y[1]], x[2]]
    IN  Rat[(x[1] \div g) * (y[1] \div h), (x[2] \div h) * (y[2] \div g)]
\* x / y for y # 0
RQuot[x \in Q, y \in Q] ==
    RMul[x, IF y[1] < 0 THEN <<0 - y[2], 0 - y[1]>> ELSE <<y[2], y[1]>>]
RLess[x \in Q, y \in Q] == x[1] * y[2] < y[1] * x[2]
\* floor of a rational
RFloor[x \in Q] == x[1] \div x[2]
\* Python's x // y on floats, y # 0: the floor of the quotient, as a float
RFloorDiv[x \in Q, y \in Q] == FromInt[RFloor[RQuot[x, y]]]

(***************************************************************************)
(* Outcomes of a call: a normal return or a raised exception.  An          *)
(* exception is a record [cls, msg]; str(e) is its msg.                    *)
(***************************************************************************)
NoException == [cls |-> "None", msg |-> [template |-> "None"]]
NoValue == <<0, 1>>
Return(v) == [exc |-> NoException, value |-> v]
Raise(e) == [exc |-> e, value |-> NoValue]
Raised(r) == r.exc.cls # "None"

\* float division or float floor division by zero
ZeroDivisionError == [cls |-> "ZeroDivisionError", msg |-> [template |-> "division by zero"]]

\* x / y, raising ZeroDivisionError when y is zero
TrueDiv(x, y) == IF y[1] = 0 THEN Raise(ZeroDivisionError) ELSE Return(RQuot[x, y])
\* x // y, raising ZeroDivisionError when y is zero
FloorDiv(x, y) == IF y[1] = 0 THEN Raise(ZeroDivisionError) ELSE Return(RFloorDiv[x, y])

(***************************************************************************)
(* Module and class constants.                                             *)
(***************************************************************************)
MIN_IN_H == 60
M_IN_KM == 1000
MEAN_SPEED_FACTOR == 18
MEAN_SPEED_SUBTRAHEND == 20
WEIGHT_FACTOR == 2
\* 0.035 and 0.029
WEIGHT_FACTOR_1 == Rat[35, 1000]
WEIGHT_FACTOR_2 == Rat[29, 1000]
\* 1.1
MEAN_SPEED_TERM == Rat[11, 10]

\* LEN_STEP without the override in Swimming
LEN_STEP_NotOverridden(cls) == Rat[65, 100]

\* Training.LEN_STEP = 0.65, overridden by Swimming.LEN_STEP = 1.38
LEN_STEP(cls) == IF cls = "Swimming" THEN Rat[138, 100] ELSE Rat[65, 100]

(***************************************************************************)
(* The dataclasses.  fields(class_) lists the base class's fields first,   *)
(* then the subclass's own, in declaration order; the generated __init__   *)
(* binds its positional arguments in that order.                           *)
(***************************************************************************)
TrainingFields == <<"action", "duration", "weight">>

\* Fields with the two fields of Swimming declared the other way round
Fields_PoolSwapped(class_) ==
    CASE class_ = "Running" -> TrainingFields
      [] class_ = "SportsWalking" -> TrainingFields \o <<"height">>
      [] class_ = "Swimming" -> TrainingFields \o <<"count_pool", "length_pool">>

Fields(class_) ==
    CASE class_ = "Running" -> TrainingFields
      [] class_ = "SportsWalking" -> TrainingFields \o <<"height">>
      [] class_ = "Swimming" -> TrainingFields \o <<"length_pool", "count_pool">>

\* class_ applied to the unpacked data, for Len(data) = Len(Fields(class_))
Construct(class_, data) ==
    LET f == Fields(class_)
        pos(name) == CHOOSE k \in 1..Len(f) : f[k] = name
    IN  ("cls" :> class_) @@ [name \in {f[k] : k \in 1..Len(f)} |-> data[pos(name)]]

(***************************************************************************)
(* Training and its subclasses.                                            *)
(***************************************************************************)
get_distance(t) ==
    RQuot[RMul[FromInt[t.action], LEN_STEP(t.cls)], FromInt[M_IN_KM]]

Training_get_mean_speed(t) ==
    TrueDiv(get_distance(t), FromInt[t.duration])

Swimming_get_mean_speed(t) ==
    TrueDiv(RQuot[RMul[FromInt[t.length_pool], FromInt[t.count_pool]], FromInt[M_IN_KM]],
            FromInt[t.duration])

\* get_mean_speed without the override in Swimming
get_mean_speed_NotOverridden(t) == Training_get_mean_speed(t)

get_mean_speed(t) ==
    IF t.cls = "Swimming" THEN Swimming_get_mean_speed(t) ELSE Training_get_mean_speed(t)

duration_minutes(t) == RMul[FromInt[t.duration], FromInt[MIN_IN_H]]

\* Running.get_spent_calories with the duration left in hours
Running_get_spent_calories_Hours(t) ==
    LET speed == get_mean_speed(t) IN
    IF Raised(speed) THEN speed
    ELSE Return(RMul[RQuot[RMul[RSub[RMul[FromInt[MEAN_SPEED_FACTOR], speed.value],
                                     FromInt[MEAN_SPEED_SUBTRAHEND]],
                                FromInt[t.weight]],
                           FromInt[M_IN_KM]],
                     FromInt[t.duration]])

Running_get_spent_calories(t) ==
    LET speed == get_mean_speed(t) IN
    IF Raised(speed) THEN speed
    ELSE Return(RMul[RQuot[RMul[RSub[RMul[FromInt[MEAN_SPEED_FACTOR], speed.value],
                                     FromInt[MEAN_SPEED_SUBTRAHEND]],
                                FromInt[t.weight]],
                           FromInt[M_IN_KM]],
                     duration_minutes(t)])

\* SportsWalking.get_spent_calories with / in place of //
SportsWalking_get_spent_calories_TrueDiv(t) ==
    LET speed == get_mean_speed(t) IN
    IF Raised(speed) THEN speed
    ELSE LET q == TrueDiv(RMul[speed.value, speed.value], FromInt[t.height]) IN
         IF Raised(q) THEN q
         ELSE Return(RMul[duration_minutes(t),
                          RAdd[RMul[WEIGHT_FACTOR_1, FromInt[t.weight]],
                               RMul[RMul[q.value, WEIGHT_FACTOR_2], FromInt[t.weight]]]])

SportsWalking_get_spent_calories(t) ==
    LET speed == get_mean_speed(t) IN
    IF Raised(speed) THEN speed
    ELSE LET q == FloorDiv(RMul[speed.value, speed.value], FromInt[t.height]) IN
         IF Raised(q) THEN q
         ELSE Return(RMul[duration_minutes(t),
                          RAdd[RMul[WEIGHT_FACTOR_1, FromInt[t.weight]],
                               RMul[RMul[q.value, WEIGHT_FACTOR_2], FromInt[t.weight]]]])

\* Swimming.get_spent_calories dividing by the weight
Swimming_get_spent_calories_PerWeight(t) ==
    LET speed == get_mean_speed(t) IN
    IF Raised(speed) THEN speed
    ELSE TrueDiv(RMul[RAdd[speed.value, MEAN_SPEED_TERM], FromInt[WEIGHT_FACTOR]],
                 FromInt[t.weight])

Swimming_get_spent_calories(t) ==
    LET speed == get_mean_speed(t) IN
    IF Raised(speed) THEN speed
    ELSE Return(RMul[RMul[RAdd[speed.value, MEAN_SPEED_TERM], FromInt[WEIGHT_FACTOR]],
                     FromInt[t.weight]])

get_spent_calories(t) ==
    CASE t.cls = "Running" -> Running_get_spent_calories(t)
      [] t.cls = "SportsWalking" -> SportsWalking_get_spent_calories(t)
      [] t.cls = "Swimming" -> Swimming_get_spent_calories(t)

\* InfoMessage(class name, duration, distance, speed, calories); the
\* arguments are evaluated left to right, so the first one to raise decides
show_training_info(t) ==
    LET speed == get_mean_speed(t)
        calories == get_spent_calories(t)
    IN  IF Raised(speed) THEN speed
        ELSE IF Raised(calories) THEN calories
        ELSE Return([training_type |-> t.cls,
                     duration |-> FromInt[t.duration],
                     distance |-> get_distance(t),
                     speed |-> speed.value,
                     calories |-> calories.value])

(***************************************************************************)
(* InfoMessage.get_message: every number is rendered by the format         *)
(* specification .3f, that is rounded to the nearest thousandth, ties to   *)
(* the even one.  A rendered number is [neg, int, frac]: the sign, the     *)
(* digits before the point and the three digits after it.                  *)
(***************************************************************************)
format_3f(x) ==
    LET n == Abs[x[1]] * 1000
        q == n \div x[2]
        r == n % x[2]
        up == 2 * r > x[2] \/ (2 * r = x[2] /\ q % 2 = 1)
        m == IF up THEN q + 1 ELSE q
    IN  [neg |-> x[1] < 0, int |-> m \div 1000, frac |-> m % 1000]

get_message(info) ==
    [template |-> "INFO_MESSAGE_TEMPLATE",
     training_type |-> info.training_type,
     duration |-> format_3f(info.duration),
     distance |-> format_3f(info.distance),
     speed |-> format_3f(info.speed),
     calories |-> format_3f(info.calories)]

(***************************************************************************)
(* The package validation errors and read_package.                         *)
(***************************************************************************)
PackageValidationErrorClasses ==
    {"PackageValidationError", "PackageTypeError", "PackageSizeError"}

PackageTypeError(workout_type) ==
    [cls |-> "PackageTypeError",
     msg |-> [template |-> "UNKNOWN_WORKOUT_TYPE_ERROR_TEMPLATE",
              workout_type |-> workout_type]]

PackageSizeError(actual_size, expected_size, workout_type) ==
    [cls |-> "PackageSizeError",
     msg |-> [template |-> "WRONG_PACKAGE_SIZE_ERROR_TEMPLATE",
              actual_size |-> actual_size,
              workout_type |-> workout_type,
              expected_size |-> expected_size]]

\* the dict TRAINING_CLASSES; None stands for the result of .get on a missing key
TRAINING_CLASSES(workout_type) ==
    CASE workout_type = "WLK" -> "SportsWalking"
      [] workout_type = "RUN" -> "Running"
      [] workout_type = "SWM" -> "Swimming"
      [] OTHER -> "None"

\* read_package checking the size, against the base class for an unknown
\* type, before the type
read_package_SizeFirst(workout_type, data) ==
    LET class_ == TRAINING_CLASSES(workout_type)
        actual_package_size == Len(data)
        expected_package_size ==
            IF class_ = "None" THEN Len(TrainingFields) ELSE Len(Fields(class_))
    IN  IF actual_package_size # expected_package_size
        THEN Raise(PackageSizeError(actual_package_size, expected_package_size,
                                    workout_type))
        ELSE IF class_ = "None" THEN Raise(PackageTypeError(workout_type))
        ELSE Return(Construct(class_, data))

\* read_package rejecting only the packages that are too short
read_package_TooShortOnly(workout_type, data) ==
    LET class_ == TRAINING_CLASSES(workout_type) IN
    IF class_ = "None" THEN Raise(PackageTypeError(workout_type))
    ELSE LET actual_package_size == Len(data)
             expected_package_size == Len(Fields(class_))
         IN  IF actual_package_size < expected_package_size
             THEN Raise(PackageSizeError(actual_package_size, expected_package_size,
                                         workout_type))
             ELSE Return(Construct(class_, data))

read_package(workout_type, data) ==
    LET class_ == TRAINING_CLASSES(workout_type) IN
    IF class_ = "None" THEN Raise(PackageTypeError(workout_type))
    ELSE LET actual_package_size == Len(data)
             expected_package_size == Len(Fields(class_))
         IN  IF actual_package_size # expected_package_size
             THEN Raise(PackageSizeError(actual_package_size, expected_package_size,
                                         workout_type))
             ELSE Return(Construct(class_, data))

(***************************************************************************)
(* Inputs.                                                                 *)
(***************************************************************************)
\* the list `packages` of the __main__ block
SourcePackages ==
    << <<"SWM", <<720, 1, 80, 25, 40>>>>,
       <<"RUN", <<15000, 1, 75>>>>,
       <<"WLK", <<9000, 1, 75, 180>>>>,
       <<"WLK", <<9000, 1, 75, 180, 11>>>>,
       <<"BIC", <<9000, 1>>>> >>

\* a correctly sized package of a training that lasted no time at all
ZeroDurationPackages ==
    { <<"RUN", <<15000, 0, 75>>>> }

\* the packages the batches are made of
BatchPackages ==
    {SourcePackages[k] : k \in 1..Len(SourcePackages)} \cup ZeroDurationPackages

BatchesUpTo(max) == UNION {[1..n -> BatchPackages] : n \in 1..max}

Batches == BatchesUpTo(MaxPackages)

\* the values a data sequence may hold at position k
Values(k) ==
    CASE k = 1 -> {0, 720, 9000, 15000}
      [] k = 2 -> {0, 1, 2}
      [] k = 3 -> {75, 80}
      [] k = 4 -> {0, 25, 180}
      [] k = 5 -> {11, 40}
      [] OTHER -> {7}

RECURSIVE DataOfLen(_)
DataOfLen(n) ==
    IF n = 0 THEN {<<>>}
    ELSE {Append(d, v) : d \in DataOfLen(n - 1), v \in Values(n)}

WorkoutTypes == {"RUN", "WLK", "SWM", "BIC", "run"}

Packages == {<<w, d>> : w \in WorkoutTypes, d \in UNION {DataOfLen(n) : n \in 0..MaxLen}}

(***************************************************************************)
(* The __main__ block: for each package, main(read_package(...)) under     *)
(* `except PackageValidationError as e: print(e)`.                         *)
(*   pc = "read_package": about to call read_package on packages[idx]      *)
(*   pc = "main":         read_package returned `training`; about to call  *)
(*                        main(training)                                   *)
(*   pc = "except":       in the handler, about to print(e)                *)
(*   pc = "done":         the loop is exhausted                            *)
(*   pc = "raised":       an exception left the loop and ended the program *)
(***************************************************************************)
NoTraining == [cls |-> "None"]

InitState ==
    /\ idx = 1
    /\ pc = "read_package"
    /\ training = NoTraining
    /\ exc = NoException
    /\ stdout = <<>>

\* the program run on a batch of packages
Init == packages \in Batches /\ InitState

\* the program run on a batch short enough for the check of termination
InitFair == packages \in BatchesUpTo(MaxFairPackages) /\ InitState

\* the program run on a single package
InitPackage == packages \in {<<p>> : p \in Packages} /\ InitState

\* a try statement whose handler catches nothing
Handler_CatchesNothing(e) == "raised"

\* a try statement whose handler catches every exception
Handler_CatchesAll(e) == "except"

\* where an exception raised in the try body goes
Handler(e) == IF e.cls \in PackageValidationErrorClasses THEN "except" ELSE "raised"

\* the for statement fetches the next package or ends
NextIteration ==
    /\ idx' = idx + 1
    /\ pc' = IF idx + 1 > Len(packages) THEN "done" ELSE "read_package"

ReadPackageReturns ==
    /\ pc = "read_package"
    /\ \E r \in {read_package(packages[idx][1], packages[idx][2])} :
       /\ ~Raised(r)
       /\ training' = r.value
       /\ pc' = "main"
    /\ UNCHANGED <<packages, idx, exc, stdout>>

ReadPackageRaises ==
    /\ pc = "read_package"
    /\ \E r \in {read_package(packages[idx][1], packages[idx][2])} :
       /\ Raised(r)
       /\ exc' = r.exc
       /\ pc' = Handler(r.exc)
    /\ UNCHANGED <<packages, idx, training, stdout>>

\* main(training): print(training.show_training_info().get_message())
MainPrints ==
    /\ pc = "main"
    /\ \E info \in {show_training_info(training)} :
       /\ ~Raised(info)
       /\ stdout' = Append(stdout, get_message(info.value))
    /\ training' = NoTraining
    /\ NextIteration
    /\ UNCHANGED <<packages, exc>>

MainRaises ==
    /\ pc = "main"
    /\ \E info \in {show_training_info(training)} :
       /\ Raised(info)
       /\ exc' = info.exc
       /\ pc' = Handler(info.exc)
    /\ UNCHANGED <<packages, idx, training, stdout>>

\* except PackageValidationError as e: print(e)
ExceptPrints ==
    /\ pc = "except"
    /\ stdout' = Append(stdout, exc.msg)
    /\ exc' = NoException
    /\ NextIteration
    /\ UNCHANGED <<packages, training>>

Next ==
    \/ ReadPackageReturns
    \/ ReadPackageRaises
    \/ MainPrints
    \/ MainRaises
    \/ ExceptPrints

Spec == Init /\ [][Next]_vars

SpecPackage == InitPackage /\ [][Next]_vars

\* the loop cannot stall: each step is the next statement of a sequential program
FairSpec == InitFair /\ [][Next]_vars /\ WF_vars(Next)

TypeOK ==
    /\ idx \in 1..(Len(packages) + 1)
    /\ pc \in {"read_package", "main", "except", "done", "raised"}
    /\ Len(stdout) <= Len(packages)

(***************************************************************************)
(* Properties of read_package.                                             *)
(***************************************************************************)
KnownWorkoutTypes == {"RUN", "WLK", "SWM"}

\* the number of values the package of a known workout type must hold
ExpectedSize(workout_type) ==
    CASE workout_type = "RUN" -> 3
      [] workout_type = "WLK" -> 4
      [] workout_type = "SWM" -> 5

\* the k-th package is the one being handled and read_package is over
Current(k) == k = idx /\ pc # "read_package"

\* C1: a package whose workout type is none of RUN, WLK, SWM makes
\* read_package raise PackageTypeError with the message naming that type,
\* whatever the length of its data: the call never raises PackageSizeError
\* and never returns a record.
C1_UnknownTypeRaises ==
    \A k \in 1..Len(packages) :
        LET workout_type == packages[k][1] IN
        workout_type \notin KnownWorkoutTypes =>
            /\ Current(k) =>
                  /\ pc = "except"
                  /\ exc.cls = "PackageTypeError"
                  /\ exc.msg = [template |-> "UNKNOWN_WORKOUT_TYPE_ERROR_TEMPLATE",
                                workout_type |-> workout_type]
                  /\ training = NoTraining
            /\ k < idx =>
                  stdout[k] = [template |-> "UNKNOWN_WORKOUT_TYPE_ERROR_TEMPLATE",
                               workout_type |-> workout_type]

C1_Witness ==
    /\ pc = "except"
    /\ packages[idx][1] = "BIC"
    /\ Len(packages[idx][2]) = 4
    /\ exc.cls = "PackageTypeError"

\* C2: a package of a known workout type whose data length differs from
\* the field count of its class (RUN 3, WLK 4, SWM 5) makes read_package
\* raise PackageSizeError carrying the actual length, the expected length
\* and the workout type; no record is constructed.
C2_WrongSizeRaises ==
    \A k \in 1..Len(packages) :
        LET workout_type == packages[k][1]
            data == packages[k][2]
        IN  (/\ workout_type \in KnownWorkoutTypes
             /\ Len(data) # ExpectedSize(workout_type)
             /\ Current(k)) =>
                    /\ pc = "except"
                    /\ exc.cls = "PackageSizeError"
                    /\ exc.msg = [template |-> "WRONG_PACKAGE_SIZE_ERROR_TEMPLATE",
                                  actual_size |-> Len(data),
                                  workout_type |-> workout_type,
                                  expected_size |-> ExpectedSize(workout_type)]
                    /\ training = NoTraining

C2_Witness ==
    /\ pc = "except"
    /\ packages[idx] = <<"WLK", <<9000, 1, 75, 180, 11>>>>
    /\ exc.msg.actual_size = 5
    /\ exc.msg.expected_size = 4

\* C3: a package of a known workout type whose data has exactly the field
\* count of its class makes read_package return, without raising, a record
\* of the class mapped to the type (RUN Running, WLK SportsWalking, SWM
\* Swimming) with its fields bound by position.
C3_RecordByPosition ==
    \A k \in 1..Len(packages) :
        LET workout_type == packages[k][1]
            data == packages[k][2]
        IN  (/\ workout_type \in KnownWorkoutTypes
             /\ Len(data) = ExpectedSize(workout_type)
             /\ Current(k)) =>
                /\ pc \in {"main", "raised"}
                /\ exc.cls \notin PackageValidationErrorClasses
                /\ training =
                     CASE workout_type = "RUN" ->
                            [cls |-> "Running", action |-> data[1],
                             duration |-> data[2], weight |-> data[3]]
                       [] workout_type = "WLK" ->
                            [cls |-> "SportsWalking", action |-> data[1],
                             duration |-> data[2], weight |-> data[3],
                             height |-> data[4]]
                       [] workout_type = "SWM" ->
                            [cls |-> "Swimming", action |-> data[1],
                             duration |-> data[2], weight |-> data[3],
                             length_pool |-> data[4], count_pool |-> data[5]]

C3_Witness ==
    /\ pc = "main"
    /\ packages[idx][1] = "SWM"
    /\ training.cls = "Swimming"
    /\ training.length_pool = 25
    /\ training.count_pool = 40

(***************************************************************************)
(* Properties of the batch loop.                                           *)
(***************************************************************************)
\* the line the program prints for a package that passes or fails validation
LineOf(package) ==
    LET r == read_package(package[1], package[2]) IN
    IF Raised(r) THEN r.exc.msg
    ELSE get_message(show_training_info(r.value).value)

\* the package passes validation and then fails in the computation of its metrics
ComputationFails(package) ==
    LET r == read_package(package[1], package[2]) IN
    ~Raised(r) /\ Raised(show_training_info(r.value))

C10_ZeroDurationEndsBatch ==
    \A k \in 1..Len(packages) :
        LET workout_type == packages[k][1]
            data == packages[k][2]
        IN  (/\ workout_type \in KnownWorkoutTypes
             /\ Len(data) = ExpectedSize(workout_type)
             /\ data[2] = 0) =>
                /\ idx <= k
                /\ pc # "done"
                /\ Current(k) =>
                      /\ pc \in {"main", "raised"}
                      /\ training.duration = 0
                      /\ Raised(get_mean_speed(training))
                      /\ pc = "raised" =>
                            /\ exc.cls = "ZeroDivisionError"
                            /\ exc.cls \notin PackageValidationErrorClasses
                            /\ Len(stdout) = k - 1
                            /\ ~ENABLED Next

C10_Witness ==
    /\ pc = "raised"
    /\ exc.cls = "ZeroDivisionError"
    /\ training.duration = 0
    /\ idx < Len(packages)
    /\ Len(stdout) = idx - 1

(***************************************************************************)
(* Properties of the formulas.  They are stated of the record read_package *)
(* returned, in the state where main is about to be called on it.          *)
(***************************************************************************)
\* the records that differ from t in the weight only, and are heavier
Heavier(t) == {[t EXCEPT !.weight = w] : w \in {w \in Values(3) : w > t.weight}}

\* the calories of t are defined and smaller than those of u
CaloriesIncrease(t, u) ==
    LET c == get_spent_calories(t)
        d == get_spent_calories(u)
    IN  ~Raised(c) /\ ~Raised(d) /\ RLess[c.value, d.value]

CaloriesDefined(t) == ~Raised(get_spent_calories(t))

\* C5 as stated: for all three classes, of two records that differ in the
\* weight only the heavier has the larger spent calories.
C5_Original ==
    (pc = "main" /\ CaloriesDefined(training)) =>
        \A u \in Heavier(training) : CaloriesIncrease(training, u)

\* 18 * speed - 20 of a Running record whose speed is defined
RunningFactor(t) ==
    RSub[RMul[FromInt[18], get_mean_speed(t).value], FromInt[20]]

\* C5 amended: with the calories defined (non-zero duration and height), of
\* two records that differ in the weight only the heavier has the larger
\* spent calories for SportsWalking and Swimming, and for Running when
\* 18 * mean speed exceeds 20; a Running record with 18 * mean speed below
\* 20 has the smaller (more negative) calories when heavier.
C5_MonotoneInWeight ==
    (pc = "main" /\ CaloriesDefined(training)) =>
        \A u \in Heavier(training) :
            IF training.cls = "Running" /\ RLess[RunningFactor(training), FromInt[0]]
            THEN CaloriesIncrease(u, training)
            ELSE /\ CaloriesIncrease(training, u)
                 /\ training.cls = "Running" => RLess[FromInt[0], RunningFactor(training)]

C5_Witness ==
    /\ pc = "main"
    /\ training.cls = "Swimming"
    /\ training.duration = 2
    /\ training.weight = 75
    /\ CaloriesIncrease(training, [training EXCEPT !.weight = 80])

\* C6: the mean speed of a Swimming record is
\* length_pool * count_pool / 1000 / duration whatever its action and
\* weight are: records that agree on length_pool, count_pool and duration
\* have the same mean speed, and the same spent calories when they agree on
\* the weight too.
C6_SwimmingSpeedIgnoresAction ==
    (pc = "main" /\ training.cls = "Swimming") =>
        /\ training.duration # 0 =>
              get_mean_speed(training) =
                  Return(Rat[training.length_pool * training.count_pool,
                             1000 * training.duration])
        /\ \A a \in Values(1), w \in Values(3) :
              /\ get_mean_speed([training EXCEPT !.action = a, !.weight = w])
                     = get_mean_speed(training)
              /\ get_spent_calories([training EXCEPT !.action = a])
                     = get_spent_calories(training)

C6_Witness ==
    /\ pc = "main"
    /\ training.cls = "Swimming"
    /\ training.action = 720
    /\ training.duration = 2
    /\ training.length_pool = 25
    /\ get_mean_speed(training).value = Rat[1, 2]

\* the package ("RUN", [15000, 1, 75])
Run15000 == <<"RUN", <<15000, 1, 75>>>>

\* C7 as stated: the message of ("RUN", [15000, 1, 75]) shows the duration
\* 1.000 and calories of about 1187.64.
C7_Original ==
    \A k \in 1..Len(stdout) :
        packages[k] = Run15000 =>
            /\ stdout[k].duration = [neg |-> FALSE, int |-> 1, frac |-> 0]
            /\ stdout[k].calories.int = 1187
            /\ stdout[k].calories.frac \in 635..645

\* C7 amended: read_package("RUN", [15000, 1, 75]) gives a Running record
\* whose message shows the duration 1.000 and the calories 699.750, the
\* value of (18 * speed - 20) * weight / 1000 * duration_minutes with
\* speed = distance / duration = 9.75, shown with three decimals.
C7_RunMessage ==
    /\ \A k \in 1..Len(packages) :
          (packages[k] = Run15000 /\ Current(k)) =>
              /\ training = [cls |-> "Running", action |-> 15000,
                             duration |-> 1, weight |-> 75]
              /\ get_mean_speed(training) = Return(Rat[975, 100])
              /\ get_spent_calories(training) = Return(Rat[69975, 100])
    /\ \A k \in 1..Len(stdout) :
          packages[k] = Run15000 =>
              /\ stdout[k].template = "INFO_MESSAGE_TEMPLATE"
              /\ stdout[k].training_type = "Running"
              /\ stdout[k].duration = [neg |-> FALSE, int |-> 1, frac |-> 0]
              /\ stdout[k].calories = [neg |-> FALSE, int |-> 699, frac |-> 750]

C7_Witness ==
    /\ pc = "done"
    /\ packages = <<Run15000>>
    /\ Len(stdout) = 1
    /\ stdout[1].calories.frac = 750

\* the step length of the claim, in hundredths of a metre
StepHundredths(cls) == IF cls = "Swimming" THEN 138 ELSE 65

\* the records that agree with t on the action and the class
SameAction(t) ==
    {[name \in DOMAIN t |->
        IF name \in {"cls", "action"} THEN t[name] ELSE f[name]] :
     f \in [DOMAIN t \ {"cls", "action"} -> {1, 2, 75, 180}]}

\* C8: for the three classes the distance is action * step_length / 1000
\* kilometres, with step_length 0.65 for Running and SportsWalking and 1.38
\* for Swimming, and depends on no other field; the SWM package
\* [720, 1, 80, 25, 40] gives 0.9936 km.
C8_Distance ==
    pc = "main" =>
        /\ get_distance(training)
               = Rat[training.action * StepHundredths(training.cls), 100 * 1000]
        /\ \A u \in SameAction(training) : get_distance(u) = get_distance(training)
        /\ training = [cls |-> "Swimming", action |-> 720, duration |-> 1,
                       weight |-> 80, length_pool |-> 25, count_pool |-> 40]
               => get_distance(training) = Rat[9936, 10000]

C8_Witness ==
    /\ pc = "main"
    /\ training = [cls |-> "Swimming", action |-> 720, duration |-> 1,
                   weight |-> 80, length_pool |-> 25, count_pool |-> 40]
    /\ get_distance(training) = Rat[9936, 10000]

\* C9: the spent calories of a SportsWalking record are
\* duration_minutes * (0.035 * weight + floor(speed^2 / height) * 0.029 * weight)
\* with the quotient floored; when speed^2 < height they are
\* duration * 60 * 0.035 * weight, and the WLK package [9000, 1, 75, 180]
\* gives 157.5.
C9_WalkingCalories ==
    (/\ pc = "main"
     /\ training.cls = "SportsWalking"
     /\ training.duration # 0
     /\ training.height # 0) =>
        LET speed == RQuot[get_distance(training), FromInt[training.duration]]
            square == RMul[speed, speed]
            floor == RFloor[RQuot[square, FromInt[training.height]]]
            minutes == 60 * training.duration
            calories == get_spent_calories(training)
        IN  /\ ~Raised(calories)
            /\ calories.value
                   = RMul[FromInt[minutes],
                          RAdd[Rat[35 * training.weight, 1000],
                               Rat[floor * 29 * training.weight, 1000]]]
            /\ RLess[square, FromInt[training.height]] =>
                   calories.value = Rat[minutes * 35 * training.weight, 1000]
            /\ training = [cls |-> "SportsWalking", action |-> 9000, duration |-> 1,
                           weight |-> 75, height |-> 180]
                   => calories.value = Rat[1575, 10]

C9_Witness ==
    /\ pc = "main"
    /\ training = [cls |-> "SportsWalking", action |-> 9000, duration |-> 1,
                   weight |-> 75, height |-> 180]
    /\ get_spent_calories(training).value = Rat[1575, 10]

====
